---------------------------- MODULE Spec2Model ----------------------------
(***************************************************************************)
(* A model of scripts/op_roofed_watch.py: the Ontario Parks roofed         *)
(* accommodation watcher.                                                  *)
(*                                                                         *)
(* Python values are modelled as follows.  A str is a sequence of          *)
(* one-character strings, so that strip, lower, split and the digit        *)
(* extraction are computed character by character.  A list is a sequence.  *)
(* A dict is a function whose domain is the set of keys that are present   *)
(* (TLA+ record notation), or, where iteration order matters, a sequence   *)
(* of key/value entries.  None is the record None.  Opaque identifiers     *)
(* (uids, tokens, ISO dates) are TLA+ strings.                             *)
(***************************************************************************)
EXTENDS Integers, Sequences, FiniteSets, TLC

(***************************************************************************)
(* Characters and the str methods the script uses                          *)
(***************************************************************************)
Uppers == <<"A","B","C","D","E","F","G","H","I","J","K","L","M",
            "N","O","P","Q","R","S","T","U","V","W","X","Y","Z">>

Lowers == <<"a","b","c","d","e","f","g","h","i","j","k","l","m",
            "n","o","p","q","r","s","t","u","v","w","x","y","z">>

DigitChars == <<"0","1","2","3","4","5","6","7","8","9">>

Whitespace == {" ", "\t"}

IndexIn(seq, c) == CHOOSE i \in 1..Len(seq) : seq[i] = c

Range(seq) == {seq[i] : i \in 1..Len(seq)}

UpperSet == Range(Uppers)

LowerSet == Range(Lowers)

DigitSet == Range(DigitChars)

\* ch.isdigit()
isdigit(c) == c \in DigitSet

\* the lower-case form of each upper-case letter
LowerOf == [c \in UpperSet |-> Lowers[IndexIn(Uppers, c)]]

\* the lower-case form of one character
LowerChar(c) == IF c \in UpperSet THEN LowerOf[c] ELSE c

\* s.lower()
lower(s) == [i \in 1..Len(s) |-> LowerChar(s[i])]

\* the code point of a character (str comparison is by code point)
ord(c) ==
    IF c = "\t" THEN 9
    ELSE IF c = " " THEN 32
    ELSE IF c \in DigitSet THEN 47 + IndexIn(DigitChars, c)
    ELSE IF c \in UpperSet THEN 64 + IndexIn(Uppers, c)
    ELSE IF c \in LowerSet THEN 96 + IndexIn(Lowers, c)
    ELSE 63

RECURSIVE lstrip(_)
lstrip(s) == IF s # <<>> /\ Head(s) \in Whitespace THEN lstrip(Tail(s)) ELSE s

RECURSIVE rstrip(_)
rstrip(s) ==
    IF s # <<>> /\ s[Len(s)] \in Whitespace
    THEN rstrip(SubSeq(s, 1, Len(s) - 1)) ELSE s

\* s.strip()
strip(s) == rstrip(lstrip(s))

\* s.split(): the maximal runs of non-whitespace characters, in order
RECURSIVE SplitFrom(_, _, _)
SplitFrom(s, word, words) ==
    IF s = <<>>
    THEN IF word = <<>> THEN words ELSE Append(words, word)
    ELSE IF Head(s) \in Whitespace
         THEN SplitFrom(Tail(s), <<>>,
                        IF word = <<>> THEN words ELSE Append(words, word))
         ELSE SplitFrom(Tail(s), Append(word, Head(s)), words)

split(s) == SplitFrom(s, <<>>, <<>>)

\* sep.join(parts)
RECURSIVE join(_, _)
join(sep, parts) ==
    IF parts = <<>> THEN <<>>
    ELSE IF Len(parts) = 1 THEN parts[1]
    ELSE parts[1] \o sep \o join(sep, Tail(parts))

\* the Python test `sub in s` on two strs
Contains(s, sub) ==
    \E i \in 0..(Len(s) - Len(sub)) : SubSeq(s, i + 1, i + Len(sub)) = sub

\* s < t, as Python compares strs
RECURSIVE StrLess(_, _)
StrLess(s, t) ==
    IF t = <<>> THEN FALSE
    ELSE IF s = <<>> THEN TRUE
    ELSE IF ord(Head(s)) # ord(Head(t)) THEN ord(Head(s)) < ord(Head(t))
    ELSE StrLess(Tail(s), Tail(t))

\* seq[:n]
Take(seq, n) == SubSeq(seq, 1, IF Len(seq) < n THEN Len(seq) ELSE n)

None == [t |-> "None"]

(***************************************************************************)
(* normalize, pick_location                                                *)
(***************************************************************************)
normalize(s) == join(<<" ">>, split(lower(s)))

\* l.get("localizedValues", [{}])[0].get("fullName", "")
FullName(l) ==
    IF "localizedValues" \in DOMAIN l
    THEN IF "fullName" \in DOMAIN l.localizedValues[1]
         THEN l.localizedValues[1].fullName ELSE <<>>
    ELSE <<>>

\* how many candidate names the ambiguous-match message lists
MaxListedNames == 10

Return(v) == [raised |-> FALSE, value |-> v]

Raise(type, msg) == [raised |-> TRUE, type |-> type, msg |-> msg]

\* pick_location without its exact-match step
pick_location_no_exact(locs, q0) ==
    LET q == normalize(q0)
        partial == SelectSeq(locs, LAMBDA l : Contains(normalize(FullName(l)), q))
        shown == Take(partial, MaxListedNames)
        names == join(<<",", " ">>, [i \in 1..Len(shown) |-> FullName(shown[i])])
    IN  IF Len(partial) = 1 THEN Return(partial[1])
        ELSE IF partial = <<>>
             THEN Raise("ValueError",
                        [text |-> "No park matches: {query}", query |-> q0])
             ELSE Raise("ValueError",
                        [text |-> "Multiple parks match '{query}': {names}...",
                         query |-> q0, names |-> names])

pick_location(locs, query) ==
    LET q == normalize(query)
        exact == SelectSeq(locs, LAMBDA l : normalize(FullName(l)) = q)
        partial == SelectSeq(locs, LAMBDA l : Contains(normalize(FullName(l)), q))
        shown == Take(partial, MaxListedNames)
        names == join(<<",", " ">>, [i \in 1..Len(shown) |-> FullName(shown[i])])
    IN  IF exact # <<>> THEN Return(exact[1])
        ELSE IF Len(partial) = 1 THEN Return(partial[1])
        ELSE IF partial = <<>>
             THEN Raise("ValueError",
                        [text |-> "No park matches: {query}", query |-> query])
             ELSE Raise("ValueError",
                        [text |-> "Multiple parks match '{query}': {names}...",
                         query |-> query, names |-> names])

(***************************************************************************)
(* Dynamically typed JSON values: the cart is whatever /api/cart returned. *)
(* A value whose type the script tests at run time (`x or y`, `not x`,     *)
(* `.get` on it) carries its type as a tag.                                *)
(***************************************************************************)
Str(s) == [t |-> "str", v |-> s]

List(l) == [t |-> "list", v |-> l]

Dict(d) == [t |-> "dict", v |-> d]

\* an ordered dict (its items in insertion order) is Dict of a sequence of
\* entries [k, v] with distinct keys
Item(k, v) == [k |-> k, v |-> v]

\* a str held as characters
Chars(s) == [t |-> "chars", v |-> s]

PyInt(n) == [t |-> "int", v |-> n]

EmptyDict == [k \in {} |-> None]

\* bool(x)
Truthy(x) ==
    CASE x.t = "None" -> FALSE
      [] x.t = "str"  -> x.v # ""
      [] x.t = "list" -> x.v # <<>>
      [] x.t = "dict" -> DOMAIN x.v # {}
      [] x.t = "chars" -> x.v # <<>>
      [] x.t = "int"  -> x.v # 0

\* x or y
Or(x, y) == IF Truthy(x) THEN x ELSE y

\* d.get(k, default)
Get(d, k, default) == IF k \in DOMAIN d THEN d[k] ELSE default

\* d[k] = v
Set(d, k, v) == [x \in DOMAIN d \cup {k} |-> IF x = k THEN v ELSE d[x]]

\* d.setdefault(k, v)
SetDefault(d, k, v) == IF k \in DOMAIN d THEN d ELSE Set(d, k, v)

DEFAULT_APP_LANGUAGE == "en-CA"

\* dt.datetime.now(dt.timezone.utc).isoformat().replace("+00:00", "Z") at
\* clock reading t: the UTC reading with the offset written as Z
iso_now(t) == [utc |-> t, offset |-> "Z"]

\* a check of the cart that looks at its gift cards only
cart_has_items_gift_cards(cart) == Truthy(Get(cart, "giftCards", None))

\* bool(cart.get("bookings") or ... or cart.get("giftCards"))
cart_has_items(cart) ==
    Truthy(Or(Get(cart, "bookings", None),
           Or(Get(cart, "lineItems", None),
           Or(Get(cart, "sales", None),
           Or(Get(cart, "shipments", None),
              Get(cart, "giftCards", None))))))

(***************************************************************************)
(* build_cart_commit_payload.  The caller's cart is an object on a heap    *)
(* (a sequence of dicts, a reference being an index), because the function *)
(* assigns to keys of the dict it works on: whether that dict is the       *)
(* caller's is decided by copy.deepcopy.  The values under the keys are    *)
(* never changed in place (the lists are rebuilt with +), so they are      *)
(* plain values.                                                           *)
(***************************************************************************)
\* the sentinel "any capacity category" / rate category
ANY_CATEGORY == -32768

\* a deepcopy that hands back the object it was given (cart_copy = cart)
deepcopy_alias(heap, ref) == [heap |-> heap, ref |-> ref]

\* copy.deepcopy(obj): a new object, equal to the old one
deepcopy(heap, ref) == [heap |-> Append(heap, heap[ref]), ref |-> Len(heap) + 1]

\* the "newVersion" dict of the booking
NewBookingVersion(ids, now, a) ==
    [cartTransactionUid |-> ids.cart_tx_uid,
     bookingMembers |-> <<>>,
     bookingVehicles |-> <<>>,
     bookingBoats |-> <<>>,
     bookingCapacityCategoryCounts |->
        <<[capacityCategoryId |-> ANY_CATEGORY,
           subCapacityCategoryId |-> None,
           count |-> a.party_size]>>,
     rateCategoryId |-> ANY_CATEGORY,
     resourceBlockerUids |-> <<ids.blocker_uid>>,
     resourceNonSpecificBlockerUids |-> <<>>,
     resourceZoneBlockerUids |-> <<>>,
     resourceZoneEntryBlockerUids |-> <<>>,
     startDate |-> a.start_date,
     endDate |-> a.end_date,
     releasePersonalInformation |-> FALSE,
     equipmentCategoryId |-> None,
     subEquipmentCategoryId |-> None,
     occupant |->
        [contact |-> [email |-> "",
                      contactName |-> "",
                      phoneNumberCountryCode |-> None,
                      phoneNumber |-> ""],
         address |-> EmptyDict,
         allowMarketing |-> FALSE,
         phoneNumbers |-> EmptyDict,
         preferredCultureName |-> a.preferred_culture_name,
         firstName |-> "",
         lastName |-> ""],
     requiresCheckout |-> FALSE,
     bookingStatus |-> 0,
     completedDate |-> now,
     arrivalComment |-> "",
     entryPointResourceId |-> None,
     exitPointResourceId |-> None,
     bookingSurcharges |-> <<>>,
     consentToRelease |-> FALSE,
     equipmentDescription |-> "",
     groupHoldUid |-> "",
     organizationName |-> "",
     passExpiryDate |-> None,
     passNumber |-> "",
     resourceLocationId |-> a.resource_location_id,
     checkInTime |-> None,
     checkOutTime |-> None,
     deferredPayment |-> FALSE]

\* a booking whose createTransactionUid is taken from the wrong uid variable
NewBooking_wrong_uid(ids, now, a) ==
    [bookingUid |-> ids.booking_uid,
     cartUid |-> ids.cart_uid,
     bookingCategoryId |-> a.booking_category_id,
     bookingModel |-> 0,
     newVersion |->
        NewBookingVersion(ids, now, a),
     createTransactionUid |-> ids.booking_uid,
     currentVersion |-> None,
     history |-> <<>>,
     drafts |-> <<>>,
     referenceNumberPostfix |-> ""]

NewBooking(ids, now, a) ==
    [bookingUid |-> ids.booking_uid,
     cartUid |-> ids.cart_uid,
     bookingCategoryId |-> a.booking_category_id,
     bookingModel |-> 0,
     newVersion |->
        NewBookingVersion(ids, now, a),
     createTransactionUid |-> ids.cart_tx_uid,
     currentVersion |-> None,
     history |-> <<>>,
     drafts |-> <<>>,
     referenceNumberPostfix |-> ""]

\* a blocker that names itself where it should name its booking
NewResourceBlocker_self(ids, now, a) ==
    [blockerType |-> 0,
     cartUid |-> ids.cart_uid,
     resourceBlockerUid |-> ids.blocker_uid,
     bookingUid |-> ids.blocker_uid,
     groupHoldUid |-> "",
     isReservation |-> TRUE,
     newVersion |->
        [creationDate |-> now,
         cartTransactionUid |-> ids.cart_tx_uid,
         startDate |-> a.start_date,
         endDate |-> a.end_date,
         resourceId |-> a.resource_id,
         resourceLocationId |-> a.resource_location_id,
         status |-> 0]]

NewResourceBlocker(ids, now, a) ==
    [blockerType |-> 0,
     cartUid |-> ids.cart_uid,
     resourceBlockerUid |-> ids.blocker_uid,
     bookingUid |-> ids.booking_uid,
     groupHoldUid |-> "",
     isReservation |-> TRUE,
     newVersion |->
        [creationDate |-> now,
         cartTransactionUid |-> ids.cart_tx_uid,
         startDate |-> a.start_date,
         endDate |-> a.end_date,
         resourceId |-> a.resource_id,
         resourceLocationId |-> a.resource_location_id,
         status |-> 0]]

\* the setdefault calls with the one for "sales" forgotten
DefaultedKeys_short ==
    <<"resourceNonSpecificBlockers", "resourceZoneBlockers",
      "resourceZoneEntryBlockers", "waitlistApplications",
      "lineItems", "shipments">>

\* the collections that are only defaulted, in the order of the setdefault calls
DefaultedKeys ==
    <<"resourceNonSpecificBlockers", "resourceZoneBlockers",
      "resourceZoneEntryBlockers", "waitlistApplications",
      "lineItems", "sales", "shipments">>

RECURSIVE SetDefaults(_, _)
SetDefaults(d, keys) ==
    IF keys = <<>> THEN d
    ELSE SetDefaults(SetDefault(d, Head(keys), List(<<>>)), Tail(keys))

\* cart_copy.get("newTransaction", {}).get("cartTransactionUid")
\*     or cart_copy.get("createTransactionUid")
\* (defined when newTransaction, if present, is a dict)
ResolveTxUid(obj) ==
    Or(Get(Get(obj, "newTransaction", Dict(EmptyDict)).v, "cartTransactionUid", None),
       Get(obj, "createTransactionUid", None))

\* The lines after the identifier check: the two records and the updates of
\* cart_copy.
FillCart(obj, cart_uid, cart_tx_uid, a, env) ==
    LET booking_uid == Str(env.uuid4[1])
        blocker_uid == Str(env.uuid4[2])
        now == iso_now(env.now)
        ids == [cart_uid |-> cart_uid, cart_tx_uid |-> cart_tx_uid,
                booking_uid |-> booking_uid, blocker_uid |-> blocker_uid]
        booking == NewBooking(ids, now, a)
        resource_blocker == NewResourceBlocker(ids, now, a)
        o1 == Set(obj, "createTransactionUid",
                  Or(Get(obj, "createTransactionUid", None), cart_tx_uid))
        o2 == Set(o1, "bookings",
                  List(Or(Get(o1, "bookings", None), List(<<>>)).v \o <<booking>>))
        o3 == Set(o2, "resourceBlockers",
                  List(Or(Get(o2, "resourceBlockers", None), List(<<>>)).v
                       \o <<resource_blocker>>))
    IN  SetDefaults(o3, DefaultedKeys)

\* build_cart_commit_payload(cart, **a) on `heap`, where `cart` is the
\* reference the caller passes and env holds what the call draws from its
\* environment: the two uuid4 values and the clock reading.  The result is
\* the heap after the call and what the call returns or raises; a returned
\* envelope {"cart": cart_copy} holds a reference.
build_cart_commit_payload(heap, cart, a, env) ==
    LET dc == deepcopy(heap, cart)
        cart_copy == dc.ref
        obj == dc.heap[cart_copy]
        cart_uid == Get(obj, "cartUid", None)
        new_tx == Get(obj, "newTransaction", Dict(EmptyDict))
        cart_tx_uid == ResolveTxUid(obj)
    IN  IF new_tx.t # "dict"
        THEN [heap |-> dc.heap,
              ret |-> Raise("AttributeError", "object has no attribute 'get'")]
        ELSE IF ~Truthy(cart_uid) \/ ~Truthy(cart_tx_uid)
        THEN [heap |-> dc.heap,
              ret |-> Raise("RuntimeError",
                  "Cart missing cartUid or cartTransactionUid. Try refreshing cookies.")]
        ELSE [heap |-> [dc.heap EXCEPT
                          ![cart_copy] = FillCart(obj, cart_uid, cart_tx_uid, a, env)],
              ret |-> Return([cart |-> cart_copy])]

\* What a caller holds after calling the function on its cart object: the
\* cart object as it is now, and the result with the envelope's reference
\* followed (the JSON body that would be sent).
CallBuild(cart_value, a, env) ==
    LET r == build_cart_commit_payload(<<cart_value>>, 1, a, env)
    IN  [cart |-> r.heap[1],
         ret |-> IF r.ret.raised THEN r.ret
                 ELSE Return([cart |-> r.heap[r.ret.value.cart]])]

(***************************************************************************)
(* int and str of resource ids, normalize_site_token, match_preference     *)
(***************************************************************************)
\* int(s) for a str of decimal digits
RECURSIVE IntFrom(_, _)
IntFrom(s, acc) ==
    IF s = <<>> THEN acc
    ELSE IntFrom(Tail(s), 10 * acc + (IndexIn(DigitChars, Head(s)) - 1))

int(s) == IntFrom(s, 0)

\* str(n) for n >= 0
RECURSIVE str(_)
str(n) ==
    IF n < 10 THEN <<DigitChars[n + 1]>>
    ELSE str(n \div 10) \o <<DigitChars[(n % 10) + 1]>>

\* "".join(ch for ch in s if ch.isdigit()) or None
normalize_site_token(s) ==
    LET digits == SelectSeq(s, isdigit)
    IN  Or(Chars(digits), None)

\* a matcher that answers with the last matching preference
match_preference_last(resource_name, preferred) ==
    LET name_norm == lower(strip(resource_name))
        name_digits == normalize_site_token(resource_name)
        hits == {idx \in 1..Len(preferred) :
                    LET pref_norm == lower(strip(preferred[idx]))
                        pref_digits == normalize_site_token(pref_norm)
                    IN  \/ pref_norm = name_norm
                        \/ /\ Truthy(pref_digits) /\ Truthy(name_digits)
                           /\ pref_digits = name_digits}
    IN  IF hits = {} THEN None
        ELSE PyInt((CHOOSE i \in hits : \A j \in hits : j <= i) - 1)

\* the loop of match_preference from position idx (counted from 0) on
RECURSIVE MatchFrom(_, _, _, _)
MatchFrom(name_norm, name_digits, preferred, idx) ==
    IF idx >= Len(preferred) THEN None
    ELSE LET pref_norm == lower(strip(preferred[idx + 1]))
             pref_digits == normalize_site_token(pref_norm)
         IN  IF pref_norm = name_norm THEN PyInt(idx)
             ELSE IF /\ Truthy(pref_digits) /\ Truthy(name_digits)
                     /\ pref_digits = name_digits
                  THEN PyInt(idx)
             ELSE MatchFrom(name_norm, name_digits, preferred, idx + 1)

\* the index of the first preference the name matches, or None
match_preference(resource_name, preferred) ==
    MatchFrom(lower(strip(resource_name)), normalize_site_token(resource_name),
              preferred, 0)

(***************************************************************************)
(* build_roofed_category_ids                                               *)
(***************************************************************************)
DEFAULT_KEYWORDS ==
    << <<"c","a","b","i","n">>, <<"c","o","t","t","a","g","e">>,
       <<"s","h","e","l","t","e","r">>, <<"r","o","o","f">>,
       <<"y","u","r","t">>, <<"o","T","e","n","t">>, <<"o","t","e","n","t">>,
       <<"r","u","s","t","i","c">>,
       <<"s","o","f","t","-","s","i","d","e","d">> >>

\* c.get("localizedValues", [{}])[0].get("name", "") or ""
CategoryName(c) ==
    IF "localizedValues" \in DOMAIN c
    THEN IF "name" \in DOMAIN c.localizedValues[1]
         THEN c.localizedValues[1].name ELSE <<>>
    ELSE <<>>

\* the ids of the categories whose lower-cased name contains a lower-cased
\* keyword; main makes a set of the sorted list at once
build_roofed_category_ids(categories, keywords) ==
    LET keys == [i \in 1..Len(keywords) |-> lower(keywords[i])]
    IN  {categories[i].resourceCategoryId :
            i \in {j \in 1..Len(categories) :
                     \E k \in 1..Len(keys) :
                        Contains(lower(CategoryName(categories[j])), keys[k])}}

(***************************************************************************)
(* One iteration of the park loop of main, after pick_location             *)
(***************************************************************************)
\* sorted(seq, key=...) and list.sort(key=...): seq in the stable order of its
\* keys, less[i, j] telling whether the key of seq[i] is below that of seq[j]
StableSort(seq, less) ==
    LET n == Len(seq)
        rank(i) == 1 + Cardinality({j \in 1..n :
                          \/ less[j, i]
                          \/ ~less[i, j] /\ j < i})
    IN  [r \in 1..n |-> seq[CHOOSE i \in 1..n : rank(i) = r]]

\* ranked.sort(key=lambda x: x[0])
SortRanked(ranked) ==
    StableSort(ranked, [i \in 1..Len(ranked), j \in 1..Len(ranked) |->
                           ranked[i][1] < ranked[j][1]])

\* sorted(available, key=lambda x: x["name"])
SortedByName(available) ==
    StableSort(available, [i \in 1..Len(available), j \in 1..Len(available) |->
                              StrLess(available[i].name, available[j].name)])

\* {int(rid): r for rid, r in resources.items()
\*      if r.get("resourceCategoryId") in roofed_category_ids}
\* (a later item with the same int key replaces an earlier one)
RoofedResources(resources, roofed_category_ids) ==
    LET kept == SelectSeq(resources,
                    LAMBDA e : /\ "resourceCategoryId" \in DOMAIN e.v
                               /\ e.v.resourceCategoryId \in roofed_category_ids)
        last(rid) == CHOOSE i \in 1..Len(kept) :
                        /\ int(kept[i].k) = rid
                        /\ \A j \in 1..Len(kept) : int(kept[j].k) = rid => j <= i
    IN  [rid \in {int(kept[i].k) : i \in 1..Len(kept)} |-> kept[last(rid)].v]

\* [m.get("mapId") for m in maps if (m.get("mapResources") or [])]
MapIds(maps) ==
    LET used == SelectSeq(maps,
                    LAMBDA m : Truthy(Or(Get(m, "mapResources", None), List(<<>>))))
    IN  [i \in 1..Len(used) |-> used[i].mapId]

\* an all() that is satisfied by one available night
FullyAvailable_any(daily, available_code) ==
    /\ Truthy(daily)
    /\ \E i \in 1..Len(daily.v) :
          /\ "availability" \in DOMAIN daily.v[i]
          /\ daily.v[i].availability = available_code

\* daily and all(d.get("availability") == args.available_code for d in daily)
FullyAvailable(daily, available_code) ==
    /\ Truthy(daily)
    /\ \A i \in 1..Len(daily.v) :
          /\ "availability" \in DOMAIN daily.v[i]
          /\ daily.v[i].availability = available_code

\* r.get("localizedValues", [{}])[0].get("name", str(rid))
ResourceName(r, rid) ==
    IF "localizedValues" \in DOMAIN r
    THEN IF "name" \in DOMAIN r.localizedValues[1]
         THEN r.localizedValues[1].name ELSE str(rid)
    ELSE str(rid)

\* the entries one /api/availability/map response adds to `available`
AvailableFrom(availability, roofed_resources, available_code) ==
    LET items == Or(Get(availability, "resourceAvailabilities", None),
                    Dict(<<>>)).v
        good == SelectSeq(items,
                    LAMBDA e : /\ int(e.k) \in DOMAIN roofed_resources
                               /\ FullyAvailable(e.v, available_code))
    IN  [i \in 1..Len(good) |->
            LET rid == int(good[i].k)
                r == roofed_resources[rid]
            IN  [resourceId |-> rid,
                 name |-> ResourceName(r, rid),
                 categoryId |-> Get(r, "resourceCategoryId", None)]]

\* `available` after the loop over map_ids; resp holds what the provider
\* answered for this park: resources, maps and one availability per map id
RECURSIVE AvailableOver(_, _, _, _)
AvailableOver(map_ids, resp, roofed_resources, available_code) ==
    IF map_ids = <<>> THEN <<>>
    ELSE AvailableFrom(resp.availability[Head(map_ids)], roofed_resources,
                       available_code)
         \o AvailableOver(Tail(map_ids), resp, roofed_resources, available_code)

Available(resp, roofed_category_ids, available_code) ==
    AvailableOver(MapIds(resp.maps), resp,
                  RoofedResources(resp.resources, roofed_category_ids),
                  available_code)

\* park_preferences.get(display_name, []) or park_preferences.get(park_name, [])
Preferred(park_preferences, display_name, park_name) ==
    IF Get(park_preferences, display_name, <<>>) # <<>>
    THEN park_preferences[display_name]
    ELSE Get(park_preferences, park_name, <<>>)

\* best_match: the item of the first entry of `ranked` once it is sorted by
\* preference index, None when nothing is ranked or nothing is preferred
BestMatch(available, preferred) ==
    IF preferred = <<>> THEN None
    ELSE LET hits == SelectSeq(available,
                        LAMBDA item : match_preference(item.name, preferred) # None)
             ranked == [i \in 1..Len(hits) |->
                          <<match_preference(hits[i].name, preferred).v, hits[i]>>]
             sorted == SortRanked(ranked)
         IN  IF ranked = <<>> THEN None ELSE sorted[1][2]

\* loc.get("localizedValues", [{}])[0].get("fullName", park_name)
DisplayName(loc, park_name) ==
    IF "localizedValues" \in DOMAIN loc
    THEN IF "fullName" \in DOMAIN loc.localizedValues[1]
         THEN loc.localizedValues[1].fullName ELSE park_name
    ELSE park_name

\* the record appended to results for a resolved park
ParkResult(loc, park_name, resp, park_preferences, roofed_category_ids, available_code) ==
    LET display_name == DisplayName(loc, park_name)
        available == Available(resp, roofed_category_ids, available_code)
        preferred == Preferred(park_preferences, display_name, park_name)
    IN  [park |-> display_name,
         resourceLocationId |-> Get(loc, "resourceLocationId", None),
         available |-> SortedByName(available),
         preferredMatch |-> BestMatch(available, preferred)]

(***************************************************************************)
(* State                                                                   *)
(***************************************************************************)
VARIABLES
    cart,          \* the caller's cart object (in main: the /api/cart response)
    fetched,       \* the value the cart had when it was fetched
    used_uids,     \* the uuid4 values drawn so far
    clock,         \* the last clock reading taken
    calls,         \* the calls of build_cart_commit_payload made on cart
    locations,     \* the /api/resourceLocation response
    query,         \* a park name given to pick_location
    picked,        \* what pick_location returned or raised
    pc,            \* where main is
    args,          \* the parsed command line, config defaults applied
    xsrf_token,    \* the XSRF-TOKEN cookie value, None without one
    park_inputs,   \* the park names to process, in order
    park_preferences, \* config park name -> its preferred_sites
    park_i,        \* the position in park_inputs of the loop over parks
    results,       \* one record per resolved park
    responses,     \* what the provider answered for each resolved park
    reserve_i,     \* the position in matches of the reserve loop
    stdout,        \* the JSON report printed, None before
    stderr,        \* the lines printed to stderr
    posted,        \* the cart-commit requests sent
    exit_code      \* how main ended, None while it runs

buildVars == <<cart, fetched, used_uids, clock, calls>>

pickVars == <<query, picked>>

mainVars ==
    <<pc, args, xsrf_token, park_inputs, park_preferences, park_i, results,
      responses, reserve_i, stdout, stderr, posted, exit_code>>

vars == <<buildVars, pickVars, locations, mainVars>>

NotRun == [t |-> "not run"]

BuildIdle ==
    /\ cart = None /\ fetched = None /\ used_uids = {} /\ clock = 0
    /\ calls = <<>>

PickIdle == query = <<>> /\ picked = NotRun

MainIdle ==
    /\ pc = "idle" /\ args = None /\ xsrf_token = None
    /\ park_inputs = <<>> /\ park_preferences = EmptyDict
    /\ park_i = 0 /\ results = <<>> /\ responses = <<>> /\ reserve_i = 0
    /\ stdout = None /\ stderr = <<>> /\ posted = <<>> /\ exit_code = None

(***************************************************************************)
(* The carts /api/cart may return                                          *)
(***************************************************************************)
OldBooking == [bookingUid |-> Str("old-booking"), cartUid |-> Str("cart-1")]

OldBlocker ==
    [resourceBlockerUid |-> Str("old-blocker"), bookingUid |-> Str("old-booking")]

OldItem == [lineItemUid |-> Str("old-item")]

NoCollections == EmptyDict

NullCollections ==
    [k \in {"bookings", "resourceBlockers", "resourceNonSpecificBlockers",
            "resourceZoneBlockers", "resourceZoneEntryBlockers",
            "waitlistApplications", "lineItems", "sales", "shipments",
            "giftCards"} |-> None]

EmptyCollections == [k \in DOMAIN NullCollections |-> List(<<>>)]

HeldCollections ==
    [EmptyCollections EXCEPT !["bookings"] = List(<<OldBooking>>),
                             !["resourceBlockers"] = List(<<OldBlocker>>),
                             !["lineItems"] = List(<<OldItem>>)]

\* some keys missing, some null, some empty, one holding an item
MixedCollections ==
    [bookings |-> None, resourceZoneBlockers |-> List(<<>>),
     waitlistApplications |-> None, lineItems |-> List(<<OldItem>>),
     sales |-> None]

CollectionProfiles ==
    {NoCollections, NullCollections, EmptyCollections, HeldCollections,
     MixedCollections}

\* the ways a key of the cart may be missing or present
CartUidField == {EmptyDict, [cartUid |-> None], [cartUid |-> Str("")],
                 [cartUid |-> Str("cart-1")]}

NewTransactionField ==
    {EmptyDict, [newTransaction |-> None], [newTransaction |-> Dict(EmptyDict)],
     [newTransaction |-> Dict([cartTransactionUid |-> Str("tx-new")])]}

CreateTransactionField == {EmptyDict, [createTransactionUid |-> Str("tx-create")]}

\* the dict with the keys of both (the domains are disjoint)
Merge(d, e) == [k \in DOMAIN d \cup DOMAIN e |-> IF k \in DOMAIN d THEN d[k] ELSE e[k]]

Carts ==
    {Merge(Merge(u, n), Merge(c, p)) :
        u \in CartUidField, n \in NewTransactionField,
        c \in CreateTransactionField, p \in CollectionProfiles}

(***************************************************************************)
(* Calls of build_cart_commit_payload on one cart object                   *)
(***************************************************************************)
MaxCalls == 2

NumUids == 6

MaxClock == 1

UidNames ==
    <<"uuid-1", "uuid-2", "uuid-3", "uuid-4", "uuid-5", "uuid-6", "uuid-7",
      "uuid-8">>

\* the positions of the uuid4 values not drawn yet
FreeUids == {k \in 1..NumUids : UidNames[k] \notin used_uids}

BuildArgs ==
    [resource_id : {472, 473},
     resource_location_id : {11},
     start_date : {"2026-07-15"},
     end_date : {"2026-07-17"},
     party_size : {2, 4},
     booking_category_id : {2},
     preferred_culture_name : {DEFAULT_APP_LANGUAGE}]

\* what one call draws from its environment: two uuid4 values never drawn
\* before (the values are interchangeable: they are handed out in a fixed
\* order) and a clock reading that is not before the last one
Envs ==
    IF Cardinality(FreeUids) < 2 THEN {}
    ELSE LET k1 == CHOOSE k \in FreeUids : \A j \in FreeUids : k <= j
             k2 == CHOOSE k \in FreeUids \ {k1} : \A j \in FreeUids \ {k1} : k <= j
         IN  {[uuid4 |-> <<UidNames[k1], UidNames[k2]>>, now |-> t] :
                 t \in clock..MaxClock}

InitBuild ==
    /\ cart \in Carts
    /\ fetched = cart
    /\ used_uids = {}
    /\ clock = 0
    /\ calls = <<>>
    /\ locations = <<>>
    /\ PickIdle
    /\ MainIdle

BuildCall ==
    /\ Len(calls) < MaxCalls
    /\ \E a \in BuildArgs, env \in Envs :
         /\ env.uuid4[1] # env.uuid4[2]
         /\ LET r == CallBuild(cart, a, env)
            IN  /\ cart' = r.cart
                /\ calls' = Append(calls, [args |-> a, ret |-> r.ret])
                /\ used_uids' = IF r.ret.raised THEN used_uids
                                ELSE used_uids \cup {env.uuid4[1], env.uuid4[2]}
         /\ clock' = env.now
    /\ UNCHANGED <<fetched, pickVars, locations, mainVars>>

NextBuild == BuildCall

SpecBuild == InitBuild /\ [][NextBuild]_vars

(***************************************************************************)
(* Properties of build_cart_commit_payload                                 *)
(***************************************************************************)
Returned == {k \in 1..Len(calls) : ~calls[k].ret.raised}

Envelope(k) == calls[k].ret.value

AddedBooking(env) == env.cart["bookings"].v[Len(env.cart["bookings"].v)]

AddedBlocker(env) ==
    env.cart["resourceBlockers"].v[Len(env.cart["resourceBlockers"].v)]

HasKey(d, k) == k \in DOMAIN d

\* the cart exposes a cartUid and a transaction uid under one of its two keys
HasIdentifiers(c) ==
    /\ HasKey(c, "cartUid") /\ Truthy(c["cartUid"])
    /\ HasKey(c, "newTransaction") => c["newTransaction"].t = "dict"
    /\ \/ /\ HasKey(c, "newTransaction")
          /\ HasKey(c["newTransaction"].v, "cartTransactionUid")
          /\ Truthy(c["newTransaction"].v["cartTransactionUid"])
       \/ /\ HasKey(c, "createTransactionUid")
          /\ Truthy(c["createTransactionUid"])

\* the cart's transaction uid: the nested one when there is one, else the
\* top-level one
TransactionUidOf(c) ==
    IF /\ HasKey(c, "newTransaction")
       /\ HasKey(c["newTransaction"].v, "cartTransactionUid")
       /\ Truthy(c["newTransaction"].v["cartTransactionUid"])
    THEN c["newTransaction"].v["cartTransactionUid"]
    ELSE c["createTransactionUid"]

\* the list under key k of a cart, empty when the key is missing or falsy
ListOf(c, k) == IF HasKey(c, k) /\ Truthy(c[k]) THEN c[k].v ELSE <<>>

\* C1: a call on a cart that has its identifiers returns an envelope; in every
\* returned envelope the added booking lists exactly one blocker uid, that of
\* the added blocker, the blocker names the booking, and both carry the
\* transaction uid of the cart passed in.
C1_CrossReferences ==
    /\ HasIdentifiers(fetched) => Returned = 1..Len(calls)
    /\ \A k \in Returned :
         LET b == AddedBooking(Envelope(k))
             rb == AddedBlocker(Envelope(k))
         IN  /\ b.newVersion.resourceBlockerUids = <<rb.resourceBlockerUid>>
             /\ rb.bookingUid = b.bookingUid
             /\ b.newVersion.cartTransactionUid = TransactionUidOf(fetched)
             /\ rb.newVersion.cartTransactionUid = TransactionUidOf(fetched)

\* a call returned an envelope for a cart that already held a booking and a
\* resource blocker
C1_Witness ==
    \E k \in Returned :
        /\ Len(Envelope(k).cart["bookings"].v) = 2
        /\ Len(Envelope(k).cart["resourceBlockers"].v) = 2
        /\ AddedBooking(Envelope(k)).bookingUid # OldBooking.bookingUid

\* C2: the caller's cart is never changed by a call, returned or raised: after
\* any number of calls it is the value that was fetched.
C2_CartUnchanged == cart = fetched

\* two calls returned envelopes that differ from the caller's cart
C2_Witness ==
    /\ Len(calls) = 2
    /\ Returned = {1, 2}
    /\ Envelope(2).cart # cart

\* a call failed for a missing identifier
C2_WitnessRaised == \E k \in 1..Len(calls) : calls[k].ret.raised

\* the envelope with the generated uids, and the references to them, replaced
\* by fixed marks
EquateIds(env) ==
    LET bs == env.cart["bookings"].v
        rs == env.cart["resourceBlockers"].v
        b == [bs[Len(bs)] EXCEPT !.bookingUid = Str("<booking>"),
                                 !.newVersion.resourceBlockerUids = <<Str("<blocker>")>>]
        r == [rs[Len(rs)] EXCEPT !.resourceBlockerUid = Str("<blocker>"),
                                 !.bookingUid = Str("<booking>")]
    IN  [cart |-> [env.cart EXCEPT
                     !["bookings"] = List([bs EXCEPT ![Len(bs)] = b]),
                     !["resourceBlockers"] = List([rs EXCEPT ![Len(rs)] = r])]]

\* the envelope with the two timestamps of the added records replaced by a
\* fixed mark
EquateTimes(env) ==
    LET bs == env.cart["bookings"].v
        rs == env.cart["resourceBlockers"].v
        b == [bs[Len(bs)] EXCEPT !.newVersion.completedDate = "<now>"]
        r == [rs[Len(rs)] EXCEPT !.newVersion.creationDate = "<now>"]
    IN  [cart |-> [env.cart EXCEPT
                     !["bookings"] = List([bs EXCEPT ![Len(bs)] = b]),
                     !["resourceBlockers"] = List([rs EXCEPT ![Len(rs)] = r])]]

SameInputs(j, k) == j < k /\ calls[j].args = calls[k].args

\* C8 as stated: two calls with identical inputs return envelopes that are
\* equal once the generated uids are equated.
C8_OnlyIdsDiffer ==
    \A j \in Returned, k \in Returned :
        SameInputs(j, k) => EquateIds(Envelope(j)) = EquateIds(Envelope(k))

\* C8 amended: two calls with identical inputs return envelopes that are equal
\* once the generated uids and the two timestamps taken from the clock
\* (completedDate of the booking, creationDate of the blocker) are equated.
C8_OnlyIdsAndTimesDiffer ==
    \A j \in Returned, k \in Returned :
        SameInputs(j, k) =>
            EquateTimes(EquateIds(Envelope(j))) = EquateTimes(EquateIds(Envelope(k)))

\* two calls with identical inputs, made at different clock readings, returned
\* envelopes that differ
C8_Witness ==
    \E j \in Returned, k \in Returned :
        /\ SameInputs(j, k)
        /\ Envelope(j) # Envelope(k)
        /\ AddedBooking(Envelope(j)).newVersion.completedDate
             # AddedBooking(Envelope(k)).newVersion.completedDate

OtherCollections ==
    {"resourceNonSpecificBlockers", "resourceZoneBlockers",
     "resourceZoneEntryBlockers", "waitlistApplications",
     "lineItems", "sales", "shipments"}

ExtendedByOne(env, k) ==
    /\ HasKey(env.cart, k)
    /\ env.cart[k].t = "list"
    /\ Len(env.cart[k].v) = Len(ListOf(fetched, k)) + 1
    /\ SubSeq(env.cart[k].v, 1, Len(ListOf(fetched, k))) = ListOf(fetched, k)

\* C10 as stated: bookings and resourceBlockers are the input's sequences
\* extended by one entry, and every other expected collection is present as a
\* sequence, also where the input holds the key with a null value.
C10_AllCollectionsAreLists ==
    \A k \in Returned :
        /\ ExtendedByOne(Envelope(k), "bookings")
        /\ ExtendedByOne(Envelope(k), "resourceBlockers")
        /\ \A c \in OtherCollections :
             HasKey(Envelope(k).cart, c) /\ Envelope(k).cart[c].t = "list"

\* C10 amended: bookings and resourceBlockers are the input's sequences (empty
\* when absent or null) extended by one entry; every other expected collection
\* is present as a key, as an empty sequence where the input lacks the key and
\* with the input's own value (a null stays null) where the input holds it.
C10_CollectionsPresent ==
    \A k \in Returned :
        /\ ExtendedByOne(Envelope(k), "bookings")
        /\ ExtendedByOne(Envelope(k), "resourceBlockers")
        /\ \A c \in OtherCollections :
             /\ HasKey(Envelope(k).cart, c)
             /\ Envelope(k).cart[c] =
                  IF HasKey(fetched, c) THEN fetched[c] ELSE List(<<>>)

\* an envelope was returned for a cart with a missing collection, a null
\* collection and a null bookings key
C10_Witness ==
    \E k \in Returned :
        /\ ~HasKey(fetched, "shipments")
        /\ HasKey(fetched, "sales") /\ fetched["sales"] = None
        /\ HasKey(fetched, "bookings") /\ fetched["bookings"] = None
        /\ Envelope(k).cart["shipments"] = List(<<>>)

(***************************************************************************)
(* Calls of pick_location                                                  *)
(***************************************************************************)
MaxLocations == 11

\* display names as the provider may send them
ElkBay == <<"E","l","k"," "," ","B","a","y">>

ElkBayNorth == <<"E","l","k"," ","B","a","y"," ","N">>

DisplayNames == {ElkBay, ElkBayNorth}

\* park names as a user may give them
Queries ==
    {<<"e","l","k"," ","B","A","Y">>,      \* one name exactly, inside the other
     <<" ","n","\t">>,                     \* inside one name only
     <<"B","a","y">>,                      \* inside both names
     <<"O","a","k">>,                      \* inside no name
     <<" ">>}                              \* normalizes to the empty str

\* the location record with this id and display name
Location(id, name) ==
    [resourceLocationId |-> id, localizedValues |-> <<[fullName |-> name]>>]

\* a location record without a localized name
NamelessLocation(id) == [resourceLocationId |-> id]

\* the /api/resourceLocation responses: locations with distinct ids, in any
\* order of names, the first one possibly without a name
LocationLists ==
    UNION {{[k \in 1..n |-> IF k = 1 /\ nameless THEN NamelessLocation(k)
                            ELSE Location(k, ns[k])] :
              ns \in [1..n -> DisplayNames], nameless \in BOOLEAN} :
           n \in 0..MaxLocations}

InitPick ==
    /\ locations \in LocationLists
    /\ query \in Queries
    /\ picked = NotRun
    /\ BuildIdle
    /\ MainIdle

Pick ==
    /\ picked = NotRun
    /\ picked' = pick_location(locations, query)
    /\ UNCHANGED <<locations, query, buildVars, mainVars>>

NextPick == Pick

SpecPick == InitPick /\ [][NextPick]_vars

\* the positions of the locations whose normalized name equals, or contains,
\* the normalized query
ExactAt ==
    LET q == normalize(query)
    IN  {k \in 1..Len(locations) : normalize(FullName(locations[k])) = q}

PartialAt ==
    LET q == normalize(query)
    IN  {k \in 1..Len(locations) : Contains(normalize(FullName(locations[k])), q)}

Min(S) == CHOOSE x \in S : \A y \in S : x <= y

\* the elements of a set of positions in increasing order
RECURSIVE Ascending(_)
Ascending(S) == IF S = {} THEN <<>> ELSE <<Min(S)>> \o Ascending(S \ {Min(S)})

\* the display names at the first n of these positions, separated by ", "
ListedNames(S, n) ==
    LET at == Take(Ascending(S), n)
    IN  join(<<",", " ">>, [k \in 1..Len(at) |-> FullName(locations[at[k]])])

\* C7: an exact match wins and is the first exact match in input order, also
\* when other locations contain the query; else a single containing location
\* is returned; else the call fails: naming the query when nothing contains
\* it, and listing the first 10 containing names at most when several do.
C7_PickOrder ==
    picked # NotRun =>
        IF ExactAt # {}
        THEN picked = Return(locations[Min(ExactAt)])
        ELSE IF Cardinality(PartialAt) = 1
        THEN picked = Return(locations[Min(PartialAt)])
        ELSE IF PartialAt = {}
        THEN /\ picked.raised
             /\ picked.msg.text = "No park matches: {query}"
             /\ picked.msg.query = query
        ELSE /\ picked.raised
             /\ picked.msg.text = "Multiple parks match '{query}': {names}..."
             /\ picked.msg.names = ListedNames(PartialAt, 10)
             /\ \E n \in 2..10 : picked.msg.names = ListedNames(PartialAt, n)

\* an exact match was returned although an earlier location, and others,
\* contain the query too
C7_Witness ==
    /\ picked # NotRun
    /\ ~picked.raised
    /\ ExactAt # {}
    /\ Min(PartialAt) < Min(ExactAt)
    /\ Cardinality(PartialAt) > 2
    /\ picked.value.resourceLocationId = Min(ExactAt)

\* more than 10 locations contain the query and the error lists 10 of them
C7_WitnessAmbiguous ==
    /\ picked # NotRun
    /\ picked.raised
    /\ Cardinality(PartialAt) > 10
    /\ picked.msg.names = ListedNames(PartialAt, 10)
    /\ picked.msg.names # ListedNames(PartialAt, 11)

\* nothing contains the query
C7_WitnessNotFound == picked # NotRun /\ picked.raised /\ PartialAt = {}

\* exactly one location contains the query and none equals it
C7_WitnessPartial ==
    picked # NotRun /\ ~picked.raised /\ ExactAt = {} /\ Len(locations) > 1

(***************************************************************************)
(* What the provider serves                                                *)
(***************************************************************************)
DEFAULT_AVAILABLE_CODE == 5

\* /api/resourcecategory
Categories ==
    <<[resourceCategoryId |-> 1,
       localizedValues |-> <<[name |-> <<"R","u","s","t","i","c"," ","C","a","b","i","n">>]>>],
      [resourceCategoryId |-> 2,
       localizedValues |-> <<[name |-> <<"C","a","m","p","s","i","t","e">>]>>],
      [resourceCategoryId |-> 3,
       localizedValues |-> <<[name |-> <<"Y","U","R","T">>]>>],
      [resourceCategoryId |-> 4]>>

\* set(build_roofed_category_ids(categories, keywords)) with the default keywords
RoofedCategoryIds == build_roofed_category_ids(Categories, DEFAULT_KEYWORDS)

\* /api/resourceLocation
ProviderLocations == <<Location(1, ElkBay), Location(2, ElkBayNorth)>>

Site472 == <<"S","i","t","e"," ","4","7","2">>

BirchCabin == <<"B","i","r","c","h"," ","C","a","b","i","n">>

\* /api/resourcelocation/resources: an object keyed by resource id.  "08" and
\* "8" are one id to int(); "472" has no localized name.
ProviderResources ==
    <<Item(<<"4","7","2">>, [resourceCategoryId |-> 1]),
      Item(<<"4","7">>, [resourceCategoryId |-> 1,
                         localizedValues |-> <<[name |-> Site472]>>]),
      Item(<<"0","8">>, [resourceCategoryId |-> 2,
                         localizedValues |-> <<[name |-> <<"O","l","d"," ","8">>]>>]),
      Item(<<"8">>, [resourceCategoryId |-> 3,
                     localizedValues |-> <<[name |-> BirchCabin]>>]),
      Item(<<"9">>, [resourceCategoryId |-> 2,
                     localizedValues |-> <<[name |-> <<"S","i","t","e"," ","9">>]>>])>>

\* the nights of a stay are at most this many
MaxNights == 2

Night(code, quota) == [availability |-> code, remainingQuota |-> quota]

\* the per-night lists a resource may come with
Dailies ==
    {List(d) : d \in UNION {[1..n -> {Night(5, 1), Night(3, 0)}] : n \in 0..MaxNights}}
    \cup {None,
          List(<<Night(5, 0), Night(5, 0)>>),
          List(<<Night(5, 1), [remainingQuota |-> 1]>>)}

AvailabilityKeys == {<<"4","7","2">>, <<"4","7">>, <<"8">>, <<"9">>}

TwoNights == List(<<Night(5, 1), Night(5, 1)>>)

\* the resourceAvailabilities objects with at most two resources, the second
\* one free for the stay, free for its first night only, or without nights
AvailabilityItems ==
    {<<>>}
    \cup {<<Item(k, d)>> : k \in AvailabilityKeys, d \in Dailies}
    \cup {<<Item(p[1], d1), Item(p[2], d2)>> :
            p \in {q \in AvailabilityKeys \X AvailabilityKeys : q[1] # q[2]},
            d1 \in Dailies,
            d2 \in {TwoNights, List(<<Night(5, 1), Night(3, 0)>>), List(<<>>)}}

OneMap == <<[mapId |-> 1, mapResources |-> List(<<1>>)]>>

\* the answers for one park: one map with any availability object, or several
\* maps, one of them without resources, with one resource each
ParkResponses ==
    {[resources |-> ProviderResources, maps |-> OneMap,
      availability |-> [m \in {1} |-> [resourceAvailabilities |-> Dict(items)]]] :
        items \in AvailabilityItems}
    \cup {[resources |-> ProviderResources, maps |-> OneMap,
           availability |-> [m \in {1} |-> a]] :
            a \in {EmptyDict, [resourceAvailabilities |-> None]}}
    \cup {[resources |-> ProviderResources,
           maps |-> <<[mapId |-> 1, mapResources |-> List(<<1>>)],
                      [mapId |-> 2, mapResources |-> r2],
                      [mapId |-> 3, mapResources |-> List(<<1>>)]>>,
           availability |->
              [m \in {1, 2, 3} |->
                 [resourceAvailabilities |->
                    Dict(<<Item(IF m = 1 THEN k1 ELSE IF m = 2 THEN <<"8">> ELSE k3,
                                TwoNights)>>)]]] :
            k1 \in AvailabilityKeys, k3 \in AvailabilityKeys,
            r2 \in {None, List(<<>>), List(<<1>>)}}
    \cup {[resources |-> ProviderResources,
           maps |-> <<[mapId |-> 1]>>,
           availability |->
              [m \in {1} |-> [resourceAvailabilities |->
                                Dict(<<Item(<<"8">>, TwoNights)>>)]]]}

\* the answers used in whole runs: the preferred site free for the stay, or not
RunResponses ==
    {[resources |-> ProviderResources, maps |-> OneMap,
      availability |->
         [m \in {1} |-> [resourceAvailabilities |-> Dict(<<Item(<<"4","7">>, d)>>)]]] :
        d \in {TwoNights, List(<<Night(5, 1), Night(3, 0)>>)}}

\* the carts a run may fetch
RunCarts ==
    {Merge([cartUid |-> Str("cart-1"),
            newTransaction |-> Dict([cartTransactionUid |-> Str("tx-new")])],
           EmptyCollections),
     Merge([cartUid |-> Str("cart-1"), newTransaction |-> Dict(EmptyDict),
            createTransactionUid |-> Str("tx-create")], HeldCollections),
     Merge([cartUid |-> Str("cart-1")], NoCollections),
     Merge([newTransaction |-> Dict([cartTransactionUid |-> Str("tx-new")])],
           EmptyCollections),
     Merge([cartUid |-> Str("cart-1"), newTransaction |-> None,
            createTransactionUid |-> Str("tx-create")], EmptyCollections)}

(***************************************************************************)
(* main, from the cart fetch on (the --list-parks and --list-categories    *)
(* modes return before it)                                                 *)
(***************************************************************************)
MaxParks == 2

\* the arguments after parse_args and the config: without --reserve the
\* reserve options are left at their defaults
RunArgs ==
    [reserve : {TRUE},
     reserve_mode : {None, Str("first"), Str("all")},
     allow_existing_cart : BOOLEAN,
     available_code : {DEFAULT_AVAILABLE_CODE},
     party_size : {2},
     start : {"2026-07-15"},
     end : {"2026-07-17"},
     app_language : {None}]
    \cup
    [reserve : {FALSE},
     reserve_mode : {None},
     allow_existing_cart : {FALSE},
     available_code : {DEFAULT_AVAILABLE_CODE},
     party_size : {2},
     start : {"2026-07-15"},
     end : {"2026-07-17"},
     app_language : {None}]

\* park names of a run: an exact name, part of one name, part of two names,
\* part of none
RunQueries == Queries \ {<<" ">>}

PreferredSites == << <<"4","7","2">> >>

ParkInputLists == UNION {[1..n -> RunQueries] : n \in 1..MaxParks}

Matches == SelectSeq(results, LAMBDA r : r.preferredMatch # None)

\* the check of the fetched cart: lines 382-385
CheckCart_none(c) == Return(None)

CheckCart(c) ==
    IF Get(c, "newTransaction", Dict(EmptyDict)).t # "dict"
    THEN Raise("AttributeError", "object has no attribute 'get'")
    ELSE IF ~Truthy(Get(c, "cartUid", None)) \/ ~Truthy(ResolveTxUid(c))
    THEN Raise("RuntimeError",
               "Cart UID missing from /api/cart response. Try re-exporting cookies.")
    ELSE Return(None)

\* the position the park loop goes to after pick_location raised: continue
AfterPickError_break(i, n) == n + 1

AfterPickError(i, n) == i + 1

\* whether the reserve loop is left after an attempt: `if reserve_mode ==
\* "first": break` follows the try statement
BreaksLoop_on_success(reserve_mode, succeeded) == reserve_mode = Str("first") /\ succeeded

BreaksLoop(reserve_mode, succeeded) == reserve_mode = Str("first")

Init ==
    /\ pc = "fetch_cart"
    /\ args \in RunArgs
    /\ xsrf_token \in {None, Str("xsrf-1")}
    /\ locations = ProviderLocations
    /\ park_inputs \in ParkInputLists
    /\ park_preferences \in
          {EmptyDict, [n \in Range(park_inputs) |-> PreferredSites]}
    /\ park_i = 0 /\ results = <<>> /\ responses = <<>> /\ reserve_i = 0
    /\ stdout = None /\ stderr = <<>> /\ posted = <<>> /\ exit_code = None
    /\ BuildIdle
    /\ PickIdle

\* cart = get_json(session, "/api/cart") and the check of its identifiers
FetchCart ==
    /\ pc = "fetch_cart"
    /\ \E c \in RunCarts :
         /\ cart' = c
         /\ fetched' = c
         /\ IF CheckCart(c).raised
            THEN pc' = "aborted" /\ exit_code' = CheckCart(c) /\ park_i' = park_i
            ELSE pc' = "parks" /\ exit_code' = exit_code /\ park_i' = 1
    /\ UNCHANGED <<used_uids, clock, calls, pickVars, locations, args, xsrf_token,
                   park_inputs, park_preferences, results, responses, reserve_i,
                   stdout, stderr, posted>>

\* a get_json of the run answers with a status of 400 or more: main ends with
\* the RuntimeError
GetJsonFails ==
    /\ \/ pc = "fetch_cart"
       \/ /\ pc = "parks" /\ park_i <= Len(park_inputs)
          /\ ~pick_location(locations, park_inputs[park_i]).raised
    /\ pc' = "aborted"
    /\ exit_code' = Raise("RuntimeError", "HTTP status for url")
    /\ UNCHANGED <<buildVars, pickVars, locations, args, xsrf_token, park_inputs,
                   park_preferences, park_i, results, responses, reserve_i,
                   stdout, stderr, posted>>

\* one iteration of `for park_name in park_inputs`, the provider answering
\* with one of `answers`
ParkStep(answers) ==
    /\ pc = "parks" /\ park_i <= Len(park_inputs)
    /\ LET park_name == park_inputs[park_i]
           loc == pick_location(locations, park_name)
       IN  IF loc.raised
           THEN /\ stderr' = Append(stderr, [line |-> "Error: {e}", e |-> loc.msg])
                /\ park_i' = AfterPickError(park_i, Len(park_inputs))
                /\ UNCHANGED <<results, responses>>
           ELSE \E resp \in answers :
                /\ results' = Append(results,
                                ParkResult(loc.value, park_name, resp, park_preferences,
                                           RoofedCategoryIds, args.available_code))
                /\ responses' = Append(responses, resp)
                /\ park_i' = park_i + 1
                /\ stderr' = stderr
    /\ UNCHANGED <<buildVars, pickVars, locations, pc, args, xsrf_token, park_inputs,
                   park_preferences, reserve_i, stdout, posted, exit_code>>

RunParkStep == ParkStep(RunResponses)

\* the lines after the park loop up to the reserve loop: the JSON report, the
\* MATCH lines and the conditions of auto-reserve
Report ==
    /\ pc = "parks" /\ park_i > Len(park_inputs)
    /\ stdout' = [start |-> args.start, end |-> args.end,
                  partySize |-> args.party_size,
                  availableCode |-> args.available_code, results |-> results]
    /\ LET match_lines ==
               [k \in 1..Len(Matches) |->
                   [line |-> "MATCH: {park} -> {name} (resourceId {resourceId})",
                    park |-> Matches[k].park,
                    name |-> Matches[k].preferredMatch.name,
                    resourceId |-> Matches[k].preferredMatch.resourceId]]
       IN  IF ~args.reserve
           THEN pc' = "done" /\ exit_code' = Return(0)
                /\ stderr' = stderr \o match_lines
           ELSE IF ~Truthy(xsrf_token)
           THEN pc' = "done" /\ exit_code' = Return(1)
                /\ stderr' = stderr \o match_lines \o
                     <<[line |-> "Warning: XSRF-TOKEN cookie missing; cannot auto-reserve."]>>
           ELSE IF cart_has_items(cart) /\ ~args.allow_existing_cart
           THEN pc' = "done" /\ exit_code' = Return(1)
                /\ stderr' = stderr \o match_lines \o
                     <<[line |-> "Warning: Cart already has items. Auto-reserve skipped."]>>
           ELSE pc' = "reserve" /\ exit_code' = exit_code
                /\ stderr' = stderr \o match_lines
    /\ reserve_i' = 1
    /\ UNCHANGED <<buildVars, pickVars, locations, args, xsrf_token, park_inputs,
                   park_preferences, park_i, results, responses, posted>>

\* one iteration of `for r in matches`: the payload is built and posted; the
\* provider accepts the commit or answers with a status of 400 or more
ReserveStep ==
    /\ pc = "reserve" /\ reserve_i <= Len(Matches)
    /\ \E env \in Envs, accepted \in BOOLEAN :
         LET r == Matches[reserve_i]
             m == r.preferredMatch
             reserve_mode == Or(args.reserve_mode, Str("first"))
             app_language == IF args.app_language # None THEN args.app_language
                             ELSE DEFAULT_APP_LANGUAGE
             built == CallBuild(cart,
                         [resource_id |-> m.resourceId,
                          resource_location_id |-> r.resourceLocationId,
                          start_date |-> args.start,
                          end_date |-> args.end,
                          party_size |-> args.party_size,
                          booking_category_id |-> 2,
                          preferred_culture_name |-> app_language],
                         env)
             succeeded == ~built.ret.raised /\ accepted
         IN  /\ cart' = built.cart
             /\ clock' = env.now
             /\ used_uids' = IF built.ret.raised THEN used_uids
                             ELSE used_uids \cup {env.uuid4[1], env.uuid4[2]}
             /\ posted' = IF built.ret.raised THEN posted
                          ELSE Append(posted,
                                 [path |-> "/api/cart/commit?isCompleted=false&isSelfCheckIn=false",
                                  park |-> r.park,
                                  json |-> built.ret.value,
                                  xsrf |-> xsrf_token])
             /\ stderr' = Append(stderr,
                            [line |-> IF succeeded
                                      THEN "RESERVED: {park} -> {name} (resourceId {resourceId})"
                                      ELSE "RESERVE FAILED: {park} -> {name}: {e}",
                             park |-> r.park, name |-> m.name])
             /\ IF BreaksLoop(reserve_mode, succeeded)
                THEN pc' = "done" /\ exit_code' = Return(0) /\ reserve_i' = reserve_i
                ELSE pc' = pc /\ exit_code' = exit_code /\ reserve_i' = reserve_i + 1
    /\ UNCHANGED <<fetched, calls, pickVars, locations, args, xsrf_token, park_inputs,
                   park_preferences, park_i, results, responses, stdout>>

\* the reserve loop has no match left: return 0
ReserveDone ==
    /\ pc = "reserve" /\ reserve_i > Len(Matches)
    /\ pc' = "done"
    /\ exit_code' = Return(0)
    /\ UNCHANGED <<buildVars, pickVars, locations, args, xsrf_token, park_inputs,
                   park_preferences, park_i, results, responses, reserve_i,
                   stdout, stderr, posted>>

Next ==
    \/ FetchCart
    \/ GetJsonFails
    \/ RunParkStep
    \/ Report
    \/ ReserveStep
    \/ ReserveDone

Spec == Init /\ [][Next]_vars

(***************************************************************************)
(* One park of the park loop, over the answers the provider may give       *)
(***************************************************************************)
\* the preferred-site lists of a park
SitePreferences ==
    {<< <<"4","7","2">> >>,
     << <<" ","B","I","R","C","H"," ","C","a","b","i","n"," ">>, <<"4","7","2">> >>,
     << <<"4","7","2">>, BirchCabin >>,
     << <<"4","7","2">>, BirchCabin, <<"S","I","T","E"," ","4","7","2">> >>,
     << <<"9","9","9">> >>}

\* the parks of a run and their preferred sites, the last park given as q and
\* displayed as d: q alone, from the command line or from the config; or d and
\* q, both from the config or q from the command line (every park of the
\* config has its list, which may be empty)
ParkConfigs(q, d) ==
    {[inputs |-> <<q>>, preferences |-> EmptyDict]}
    \cup {[inputs |-> <<q>>, preferences |-> [n \in {q} |-> l]] : l \in SitePreferences}
    \cup {[inputs |-> <<d, q>>, preferences |-> [n \in {d} |-> l]] : l \in SitePreferences}
    \cup {[inputs |-> <<d, q>>,
           preferences |-> [n \in {q, d} |-> IF n = d THEN l ELSE << <<"4","7","2">> >>]] :
            l \in {<<>>, << <<"9","9","9">> >>}}

\* the cart of the run: the check of line 384 has passed
ParkCart ==
    Merge([cartUid |-> Str("cart-1"),
           newTransaction |-> Dict([cartTransactionUid |-> Str("tx-new")])],
          EmptyCollections)

InitPark ==
    /\ pc = "parks"
    /\ args \in [reserve : {FALSE}, reserve_mode : {None},
                 allow_existing_cart : {FALSE},
                 available_code : {DEFAULT_AVAILABLE_CODE, 3},
                 party_size : {2},
                 start : {"2026-07-15"}, end : {"2026-07-17"},
                 app_language : {None}]
    /\ xsrf_token = None
    /\ locations = ProviderLocations
    /\ \E q \in {x \in Queries : ~pick_location(ProviderLocations, x).raised} :
         \E c \in ParkConfigs(q, DisplayName(pick_location(locations, q).value, q)) :
            park_inputs = c.inputs /\ park_preferences = c.preferences
    /\ park_i = 1 /\ results = <<>> /\ responses = <<>> /\ reserve_i = 0
    /\ stdout = None /\ stderr = <<>> /\ posted = <<>> /\ exit_code = None
    /\ cart = ParkCart /\ fetched = ParkCart
    /\ used_uids = {} /\ clock = 0 /\ calls = <<>>
    /\ PickIdle

\* the last park of the run gets any answer
AnyParkStep ==
    ParkStep(IF park_i = Len(park_inputs) THEN ParkResponses ELSE RunResponses)

NextPark == AnyParkStep

SpecPark == InitPark /\ [][NextPark]_vars

(***************************************************************************)
(* Properties of the park loop                                             *)
(***************************************************************************)
ExactOf(q) ==
    {k \in 1..Len(locations) : normalize(FullName(locations[k])) = normalize(q)}

PartialOf(q) ==
    {k \in 1..Len(locations) :
        Contains(normalize(FullName(locations[k])), normalize(q))}

\* the park name matches one location exactly or is part of one name only
Resolves(q) == ExactOf(q) # {} \/ Cardinality(PartialOf(q)) = 1

ResolvedLocation(q) ==
    IF ExactOf(q) # {} THEN locations[Min(ExactOf(q))]
    ELSE locations[Min(PartialOf(q))]

\* the park names among the first n inputs that resolve, in input order
ResolvedInputs(n) ==
    SelectSeq([k \in 1..n |-> park_inputs[k]], Resolves)

\* the inputs the park loop has gone through
Processed ==
    IF pc = "parks" THEN park_i - 1
    ELSE IF pc \in {"reserve", "done"} THEN Len(park_inputs)
    ELSE 0

\* the Error lines on stderr
ErrorLines == SelectSeq(stderr, LAMBDA l : l.line = "Error: {e}")

\* C9: an input that matches no location or several is skipped and the run
\* goes on: while the park loop runs, and once it is over, the results hold
\* one record, in input order, for exactly the inputs gone through that
\* resolve to a location, each skipped input has its Error line, and the loop
\* is over only when every input has been gone through.
C9_SkipAndContinue ==
    pc \in {"parks", "reserve", "done"} =>
        LET kept == ResolvedInputs(Processed)
        IN  /\ Len(results) = Len(kept)
            /\ \A k \in 1..Len(kept) :
                  /\ results[k].park = FullName(ResolvedLocation(kept[k]))
                  /\ results[k].resourceLocationId =
                        ResolvedLocation(kept[k]).resourceLocationId
            /\ Len(ErrorLines) = Processed - Len(kept)
            /\ stdout # None => stdout.results = results /\ Processed = Len(park_inputs)

\* a run that skipped its first park, processed the second and ended
C9_Witness ==
    /\ pc = "done" /\ Len(park_inputs) = 2
    /\ ~Resolves(park_inputs[1]) /\ Resolves(park_inputs[2])
    /\ Len(results) = 1 /\ Len(ErrorLines) = 1
    /\ stdout # None

\* both kinds of error skipped in one run: no location, then several
C9_WitnessBothErrors ==
    /\ pc = "done" /\ Len(park_inputs) = 2
    /\ PartialOf(park_inputs[1]) = {} /\ Cardinality(PartialOf(park_inputs[2])) = 2
    /\ ~Resolves(park_inputs[2])
    /\ results = <<>> /\ Len(ErrorLines) = 2

(***************************************************************************)
(* Properties of the cart check                                            *)
(***************************************************************************)
\* the cart lacks cartUid, or a cartTransactionUid under newTransaction and
\* a createTransactionUid as well
CartLacksIds(c) ==
    \/ ~HasKey(c, "cartUid") \/ ~Truthy(c.cartUid)
    \/ /\ ~(/\ HasKey(c, "newTransaction") /\ c.newTransaction.t = "dict"
            /\ HasKey(c.newTransaction.v, "cartTransactionUid")
            /\ Truthy(c.newTransaction.v.cartTransactionUid))
       /\ ~(HasKey(c, "createTransactionUid") /\ Truthy(c.createTransactionUid))

CartError ==
    Raise("RuntimeError",
          "Cart UID missing from /api/cart response. Try re-exporting cookies.")

\* C4 as stated: a cart without its identifiers does not keep the run from
\* resolving the parks and producing their records: the run is not ended by
\* the cart.
C4_AvailabilityStillChecked ==
    (cart # None /\ CartLacksIds(cart)) => exit_code # CartError

\* C4, amended: a fetched cart without its identifiers ends the run with an
\* error right after the fetch: no park is resolved, no availability is asked
\* for, no record and no report is produced, no reservation is attempted.
C4_InvalidCartEndsRun ==
    (cart # None /\ CartLacksIds(cart)) =>
        /\ pc = "aborted" /\ exit_code = CartError
        /\ park_i = 0 /\ results = <<>> /\ responses = <<>>
        /\ stdout = None /\ stderr = <<>> /\ posted = <<>>

\* a run with parks that resolve, ended by a cart without identifiers
C4_Witness ==
    /\ cart # None /\ CartLacksIds(cart)
    /\ pc = "aborted"
    /\ \A k \in 1..Len(park_inputs) : Resolves(park_inputs[k])
    /\ Len(park_inputs) = 2

(***************************************************************************)
(* Properties of the reserve loop                                          *)
(***************************************************************************)
\* the lines the reserve loop wrote, one per attempt
Attempts ==
    SelectSeq(stderr,
        LAMBDA l : l.line \in {"RESERVED: {park} -> {name} (resourceId {resourceId})",
                               "RESERVE FAILED: {park} -> {name}: {e}"})

Failed(l) == l.line = "RESERVE FAILED: {park} -> {name}: {e}"

ReserveMode == IF args.reserve_mode = None THEN "first" ELSE args.reserve_mode.v

\* the run went through auto-reserve to its end
Reserved == pc = "done" /\ args # None /\ args.reserve /\ exit_code = Return(0)

\* C3 as stated: a failed commit for one park is followed by the attempt for
\* the next park, in either reserve mode.
C3_FailureNeverBlocksNext ==
    (Reserved /\ Len(Matches) >= 2 /\ Attempts # <<>> /\ Failed(Attempts[1])) =>
        Len(Attempts) >= 2

\* C3, amended: in reserve mode "all" every park with a preferred match is
\* attempted, in order, whatever the outcome of the earlier attempts; in
\* reserve mode "first" (the default) exactly the first match is attempted and
\* the loop ends after it, whether its commit succeeded or failed.  Every
\* attempt posts one payload.
C3_AttemptsPerMode ==
    /\ Len(posted) = Len(Attempts)
    /\ \A k \in 1..Len(Attempts) :
          k <= Len(Matches) /\ Attempts[k].park = Matches[k].park
    /\ Reserved =>
          IF ReserveMode = "all" THEN Len(Attempts) = Len(Matches)
          ELSE Len(Attempts) = IF Matches = <<>> THEN 0 ELSE 1

\* mode "all": the first commit failed and the second park was attempted
C3_Witness ==
    /\ Reserved /\ ReserveMode = "all" /\ Len(Matches) = 2
    /\ Len(Attempts) = 2 /\ Failed(Attempts[1])

\* mode "first": the first commit failed and the second park was not attempted
C3_WitnessFirst ==
    /\ Reserved /\ ReserveMode = "first" /\ Len(Matches) = 2
    /\ Len(Attempts) = 1 /\ Failed(Attempts[1])

(***************************************************************************)
(* Properties of one park's record                                         *)
(***************************************************************************)
\* the ids of the park's resources of a roofed category
RoofedIdsOf(resp) ==
    {int(resp.resources[i].k) :
        i \in {j \in 1..Len(resp.resources) :
                 /\ HasKey(resp.resources[j].v, "resourceCategoryId")
                 /\ resp.resources[j].v.resourceCategoryId \in RoofedCategoryIds}}

\* the maps availability is asked for: those with resources
AskedMaps(resp) ==
    {resp.maps[i].mapId :
        i \in {j \in 1..Len(resp.maps) :
                 /\ HasKey(resp.maps[j], "mapResources")
                 /\ resp.maps[j].mapResources # None
                 /\ resp.maps[j].mapResources.v # <<>>}}

\* the daily availability values returned for a resource id
DailiesFor(resp, rid) ==
    UNION {LET a == resp.availability[m]
           IN  IF HasKey(a, "resourceAvailabilities") /\ a.resourceAvailabilities # None
               THEN {a.resourceAvailabilities.v[i].v :
                       i \in {j \in 1..Len(a.resourceAvailabilities.v) :
                                int(a.resourceAvailabilities.v[j].k) = rid}}
               ELSE {} : m \in AskedMaps(resp)}

\* a non-empty sequence of which every entry carries the code
EveryNight(d, code) ==
    /\ d # None /\ d.v # <<>>
    /\ \A i \in 1..Len(d.v) : HasKey(d.v[i], "availability") /\ d.v[i].availability = code

ResourceIds == {int(k) : k \in AvailabilityKeys \cup {<<"0","8">>}}

AvailableIds(r) == {r.available[i].resourceId : i \in 1..Len(r.available)}

\* C5: a resource is in a processed park's available list exactly when its id
\* is in the park's roofed set and a daily sequence returned for it is
\* non-empty with the caller's available code in every entry.
C5_AvailableIffEveryNight ==
    \A k \in 1..Len(results) :
        /\ AvailableIds(results[k]) \subseteq ResourceIds
        /\ \A rid \in ResourceIds :
              rid \in AvailableIds(results[k]) <=>
                 /\ rid \in RoofedIdsOf(responses[k])
                 /\ \E d \in DailiesFor(responses[k], rid) :
                       EveryNight(d, args.available_code)

\* one roofed resource available on two nights without remaining quota, and
\* another, available on one night of two, left out
C5_Witness ==
    \E k \in 1..Len(results) :
       /\ \E rid \in AvailableIds(results[k]), other \in RoofedIdsOf(responses[k]) :
            /\ \E d \in DailiesFor(responses[k], rid) :
                  /\ EveryNight(d, args.available_code) /\ Len(d.v) = 2
                  /\ \A i \in 1..2 : d.v[i].remainingQuota = 0
            /\ other \notin AvailableIds(results[k])
            /\ \E d \in DailiesFor(responses[k], other) :
                  /\ d # None /\ Len(d.v) = 2
                  /\ \E i \in 1..2 : d.v[i].availability = args.available_code
                  /\ \E i \in 1..2 : d.v[i].availability # args.available_code

\* a roofed resource with an empty sequence, left out
C5_WitnessEmpty ==
    \E k \in 1..Len(results) :
       /\ \E rid \in RoofedIdsOf(responses[k]) \ AvailableIds(results[k]) :
            DailiesFor(responses[k], rid) = {List(<<>>)}

\* a preference matches a name when both are equal once trimmed and
\* lower-cased, or when their digits are the same and there are some
PreferenceMatches(name, pref) ==
    \/ lower(strip(pref)) = lower(strip(name))
    \/ /\ SelectSeq(pref, isdigit) # <<>>
       /\ SelectSeq(pref, isdigit) = SelectSeq(name, isdigit)

\* the index of the first preference a name matches
FirstMatching(name, prefs) ==
    Min({j \in 1..Len(prefs) : PreferenceMatches(name, prefs[j])})

\* the preference list of the park of the k-th record (every park of the run
\* resolves)
PreferencesOf(k) == Preferred(park_preferences, results[k].park, park_inputs[k])

\* the available resources of the k-th record in the order the evaluator
\* met them
InputOrder(k) == Available(responses[k], RoofedCategoryIds, args.available_code)

\* the positions in InputOrder(k) of the resources that match a preference
Candidates(k) ==
    {i \in 1..Len(InputOrder(k)) :
        \E j \in 1..Len(PreferencesOf(k)) :
           PreferenceMatches(InputOrder(k)[i].name, PreferencesOf(k)[j])}

\* C6: with a non-empty preference list the best match is the available
\* resource whose first matching preference has the lowest index, the first in
\* the evaluator's order among those that share it, and there is none when no
\* available resource matches a preference.
C6_BestMatch ==
    \A k \in 1..Len(results) :
        LET prefs == PreferencesOf(k)
            order == InputOrder(k)
            cands == Candidates(k)
            first == [i \in cands |-> FirstMatching(order[i].name, prefs)]
            best == CHOOSE i \in cands :
                       \A j \in cands \ {i} :
                          \/ first[i] < first[j]
                          \/ first[i] = first[j] /\ i < j
        IN  prefs # <<>> =>
               IF cands = {} THEN results[k].preferredMatch = None
               ELSE results[k].preferredMatch = order[best]

\* the resource met second is chosen: its first matching preference comes
\* before that of the resource met first
C6_Witness ==
    \E k \in 1..Len(results) :
       /\ PreferencesOf(k) # <<>>
       /\ Candidates(k) = {1, 2}
       /\ FirstMatching(InputOrder(k)[2].name, PreferencesOf(k))
             < FirstMatching(InputOrder(k)[1].name, PreferencesOf(k))
       /\ results[k].preferredMatch = InputOrder(k)[2]

\* two resources share the lowest index: the one met first is chosen, though
\* it is listed second in the record, which is sorted by name
C6_WitnessTie ==
    \E k \in 1..Len(results) :
       /\ PreferencesOf(k) # <<>>
       /\ Candidates(k) = {1, 2}
       /\ InputOrder(k)[1] # InputOrder(k)[2]
       /\ FirstMatching(InputOrder(k)[1].name, PreferencesOf(k))
             = FirstMatching(InputOrder(k)[2].name, PreferencesOf(k))
       /\ results[k].preferredMatch = InputOrder(k)[1]
       /\ results[k].available[2] = InputOrder(k)[1]

\* resources are available, none matches a preference: no best match
C6_WitnessNone ==
    \E k \in 1..Len(results) :
       /\ PreferencesOf(k) # <<>>
       /\ InputOrder(k) # <<>> /\ Candidates(k) = {}
       /\ results[k].preferredMatch = None

(***************************************************************************)
(* Properties of the cart-commit requests of a run                         *)
(***************************************************************************)
\* the cart holds bookings, line items, sales, shipments or gift cards
HoldsItems(c) ==
    \E k \in {"bookings", "lineItems", "sales", "shipments", "giftCards"} :
       HasKey(c, k) /\ c[k] # None /\ c[k].v # <<>>

\* the records with a preferred match
WithPreferredMatch == {k \in 1..Len(results) : results[k].preferredMatch # None}

\* C11: a cart-commit request is sent only when auto-reserve is requested,
\* the XSRF token is there, and the fetched cart holds no items or
\* allow-existing-cart is set; each request is for a park whose record has a
\* preferred match, for that match's resource, with the token; and in
\* reserve mode "first" at most one request is sent in the run.
C11_CommitOnlyWhenAllowed ==
    posted # <<>> =>
        /\ args.reserve
        /\ xsrf_token # None /\ xsrf_token.v # ""
        /\ ~HoldsItems(fetched) \/ args.allow_existing_cart
        /\ \A k \in 1..Len(posted) :
              /\ posted[k].xsrf = xsrf_token
              /\ \E r \in WithPreferredMatch :
                    /\ results[r].park = posted[k].park
                    /\ AddedBlocker(posted[k].json).newVersion.resourceId =
                          results[r].preferredMatch.resourceId
                    /\ AddedBlocker(posted[k].json).newVersion.resourceLocationId =
                          results[r].resourceLocationId
        /\ ReserveMode = "first" => Len(posted) = 1

\* a cart that holds items, allow-existing-cart set, mode "all": two requests
C11_Witness ==
    /\ Len(posted) = 2 /\ HoldsItems(fetched) /\ args.allow_existing_cart
    /\ ReserveMode = "all" /\ pc = "done"

\* mode "first" with two matches: the run ended with one request
C11_WitnessFirst ==
    /\ Len(posted) = 1 /\ ReserveMode = "first" /\ Len(Matches) = 2 /\ pc = "done"

\* auto-reserve requested with matches, and nothing sent: no token
C11_WitnessNoToken ==
    /\ pc = "done" /\ args.reserve /\ Matches # <<>> /\ xsrf_token = None
    /\ posted = <<>> /\ exit_code = Return(1)

\* auto-reserve requested with matches, and nothing sent: the cart holds items
C11_WitnessCartHeld ==
    /\ pc = "done" /\ args.reserve /\ Matches # <<>> /\ xsrf_token # None
    /\ HoldsItems(fetched) /\ ~args.allow_existing_cart
    /\ posted = <<>> /\ exit_code = Return(1)

\* matches found without --reserve: nothing sent
C11_WitnessNotRequested ==
    /\ pc = "done" /\ ~args.reserve /\ Matches # <<>> /\ xsrf_token # None
    /\ posted = <<>> /\ exit_code = Return(0)

=============================================================================
